---- MODULE Spec2Model ----
(***************************************************************************)
(* A model of the BoomFilters package: the concurrent Inverse Bloom        *)
(* Filter (NewInverseBloomFilter, Observe, uintHash.Sum32, getAndSet), the *)
(* Stable Bloom Filter and the bitset Bloom filter.                        *)
(*                                                                         *)
(* TLC integers are 32-bit signed, so a 32-bit hash value is kept as a     *)
(* pair <<hi, lo>> of 16-bit limbs and a 64-bit one as four 16-bit limbs,  *)
(* most significant first; all arithmetic is done on the limbs, modulo the *)
(* width of the Go type.                                                   *)
(***************************************************************************)
EXTENDS Integers, Sequences, FiniteSets, TLC

(***************************************************************************)
(* Bounds of the model.                                                    *)
(***************************************************************************)
\* number of goroutines calling Observe on one filter
NThreads == 2
\* number of Observe calls each goroutine makes (its loop count)
MaxCalls == 2
\* number of Observe calls of the single caller of a sequential execution
MaxSeqCalls == 3
\* NewInverseBloomFilter is tried on every size in -2 .. MaxSmallSize
MaxSmallSize == 130

Threads == 1..NThreads

\* the error values of the constructors; NoErr is Go's nil error
ErrTooLarge == "Size too large to round to a power of 2"
ErrTooSmall == "Size must be greater than 0"
NoErr == "nil"

(***************************************************************************)
(* Keys ([]byte values).  A nil slice and an empty slice are both <<>>:    *)
(* bytes.Equal, len and range do not tell them apart.                      *)
(***************************************************************************)
twentyNineId == <<27, 28, 29>>
thirtyId == <<27, 28, 30>>
thirtyFiveId == <<27, 28, 35>>
EmptyKey == <<>>
Keys == {EmptyKey, twentyNineId, thirtyId, thirtyFiveId}
\* keys for goroutines that contend for one slot of a filter of size 2:
\* EmptyKey and twentyNineId hash to slot 1, the others to slot 0
RaceKeys == <<thirtyId, thirtyFiveId, <<2>>, EmptyKey, twentyNineId>>

(***************************************************************************)
(* Bit operations on naturals, bit by bit.                                 *)
(***************************************************************************)
RECURSIVE Pow2(_)
Pow2(e) == IF e = 0 THEN 1 ELSE 2 * Pow2(e - 1)

RECURSIVE XorBits(_, _, _)
XorBits(a, b, n) ==
    IF n = 0 THEN 0
    ELSE (((a % 2) + (b % 2)) % 2) + 2 * XorBits(a \div 2, b \div 2, n - 1)

RECURSIVE AndBits(_, _)
AndBits(a, b) ==
    IF a = 0 \/ b = 0 THEN 0
    ELSE (a % 2) * (b % 2) + 2 * AndBits(a \div 2, b \div 2)

(***************************************************************************)
(* hash/fnv, 32-bit FNV-1a (fnv.New32a): the state is one uint32.          *)
(***************************************************************************)
Limb == 65536
\* offset32 = 2166136261 = 0x811C9DC5
offset32Hi == 33052
offset32Lo == 40389
\* prime32 = 16777619 = 0x01000193
prime32Hi == 256
prime32Lo == 403

offset32 == <<offset32Hi, offset32Lo>>

\* hash ^= sum32a(c): the byte is xored into the low limb
Xor32(h, c) == <<h[1], XorBits(h[2], c, 16)>>

\* hash *= prime32, modulo 2^32
Mul32(h) ==
    LET p0 == h[2] * prime32Lo
    IN  <<(h[1] * prime32Lo + h[2] * prime32Hi + (p0 \div Limb)) % Limb,
          p0 % Limb>>

\* the loop of sum32a.Write over data, from the loaded state h
RECURSIVE fnv32aFold(_, _)
fnv32aFold(h, data) ==
    IF data = <<>> THEN h
    ELSE fnv32aFold(Mul32(Xor32(h, Head(data))), Tail(data))

\* sum32a.Sum(nil): the four bytes of the state, big-endian
Sum(h) == <<h[1] \div 256, h[1] % 256, h[2] \div 256, h[2] % 256>>

\* uintHash.Sum32: folds sum[0], sum[1], sum[2] with shifts by 3
\* the loop over sum[1:2] in place of sum[1:3]
Sum32TwoBytes(h) ==
    LET sum == Sum(h)
    IN  (sum[1] * 8) + sum[2]

\* uintHash.Sum32 with shifts by 8: the first three bytes as one big-endian
\* number
Sum32ShiftByte(h) ==
    LET sum == Sum(h)
    IN  (((sum[1] * 256) + sum[2]) * 256) + sum[3]

Sum32(h) ==
    LET sum == Sum(h)
    IN  (((sum[1] * 8) + sum[2]) * 8) + sum[3]

\* the index Observe computes for key when it runs alone on a reset hash
IndexOf(key, mask) == AndBits(Sum32(fnv32aFold(offset32, key)), mask)

(***************************************************************************)
(* hash/fnv, 64-bit FNV-1 (fnv.New64): the state is one uint64, kept as    *)
(* four 16-bit limbs <<h1, h2, h3, h4>>, h1 the most significant.          *)
(***************************************************************************)
\* offset64 = 14695981039346656037 = 0xCBF29CE484222325
offset64 == <<52210, 40164, 33826, 8997>>
\* prime64 = 1099511628211 = 2^40 + 0x1B3
prime64Lo == 435

\* hash *= prime64, modulo 2^64: hash * 0x1B3 + (hash << 40)
Mul64(x) ==
    LET c4 == x[4] * prime64Lo
        c3 == x[3] * prime64Lo + (c4 \div Limb)
        c2 == x[2] * prime64Lo + (c3 \div Limb) + ((x[4] * 256) % Limb)
        c1 == x[1] * prime64Lo + (c2 \div Limb)
                  + ((x[3] * 256 + (x[4] \div 256)) % Limb)
    IN  <<c1 % Limb, c2 % Limb, c3 % Limb, c4 % Limb>>

\* hash ^= sum64(c)
Xor64(x, c) == <<x[1], x[2], x[3], XorBits(x[4], c, 16)>>

\* the loop of sum64.Write over data, from the state x
RECURSIVE fnv64Fold(_, _)
fnv64Fold(x, data) ==
    IF data = <<>> THEN x
    ELSE fnv64Fold(Xor64(Mul64(x), Head(data)), Tail(data))

\* a uint32 held as <<hi, lo>>, modulo n (n >= 1)
Mod32(u, n) == ((u[1] % n) * (Limb % n) + u[2]) % n

\* hashKernel without the Reset: the state stays as Write left it
hashKernelNoReset(state, data) ==
    LET sum == fnv64Fold(state, data)
    IN  [lower |-> <<sum[3], sum[4]>>, upper |-> <<sum[1], sum[2]>>,
         hash |-> sum]

\* hashKernel: Write, Sum, Reset; lower is sum[4:8] and upper sum[0:4], both
\* big-endian; hash is the state it leaves
hashKernel(state, data) ==
    LET sum == fnv64Fold(state, data)
    IN  [lower |-> <<sum[3], sum[4]>>, upper |-> <<sum[1], sum[2]>>,
         hash |-> offset64]

\* (uint(lower) + uint(upper)*i) % m, for m >= 1.  uint has 64 bits, so the
\* sum does not wrap and the remainder can be taken limb by limb.
Index(kern, i, n) == (Mod32(kern.lower, n) + Mod32(kern.upper, n) * i) % n

(***************************************************************************)
(* StableBloomFilter                                                       *)
(***************************************************************************)
\* NewStableBloomFilter without the clamp of k
NewStableBloomFilterNoClampK(size, kArg, pArg, maxArg) ==
    [m |-> size,
     k |-> kArg,
     p |-> IF pArg > size THEN size ELSE pArg,
     max |-> maxArg,
     cells |-> [i \in 0..(size - 1) |-> 0],
     indexBuffer |-> [i \in 0..(kArg - 1) |-> 0],
     hash |-> offset64,
     err |-> NoErr]

\* NewStableBloomFilter without the clamp of p
NewStableBloomFilterNoClampP(size, kArg, pArg, maxArg) ==
    LET kC == IF kArg > size THEN size ELSE kArg
    IN  [m |-> size,
         k |-> kC,
         p |-> pArg,
         max |-> maxArg,
         cells |-> [i \in 0..(size - 1) |-> 0],
         indexBuffer |-> [i \in 0..(kC - 1) |-> 0],
         hash |-> offset64,
         err |-> NoErr]

\* NewStableBloomFilter has one result, the filter: err is always NoErr
NewStableBloomFilter(size, kArg, pArg, maxArg) ==
    LET pC == IF pArg > size THEN size ELSE pArg
        kC == IF kArg > size THEN size ELSE kArg
    IN  [m |-> size,
         k |-> kC,
         p |-> pC,
         max |-> maxArg,
         cells |-> [i \in 0..(size - 1) |-> 0],
         indexBuffer |-> [i \in 0..(kC - 1) |-> 0],
         hash |-> offset64,
         err |-> NoErr]

NewDefaultStableBloomFilter(size) == NewStableBloomFilter(size, 3, 10, 1)

NewUnstableBloomFilter(size, kArg) == NewStableBloomFilter(size, kArg, 0, 1)

\* the loop of decrement from i on, with the bound i <= p in place of i < p
RECURSIVE decrementLoopOffByOne(_, _, _, _, _)
decrementLoopOffByOne(c, r, i, pN, mN) ==
    IF i > pN THEN c
    ELSE LET idx == (r + i) % mN
         IN  decrementLoopOffByOne(
                 IF c[idx] >= 1 THEN [c EXCEPT ![idx] = @ - 1] ELSE c,
                 r, i + 1, pN, mN)

\* the loop of decrement without the test s.cells[idx] >= 1: the uint8 cell
\* wraps from 0 to 255
RECURSIVE decrementLoopNoClamp(_, _, _, _, _)
decrementLoopNoClamp(c, r, i, pN, mN) ==
    IF i >= pN THEN c
    ELSE LET idx == (r + i) % mN
         IN  decrementLoopNoClamp([c EXCEPT ![idx] = (@ + 255) % 256],
                                  r, i + 1, pN, mN)

\* the loop of decrement from i on: cells r + i, ..., r + p - 1 (mod m), each
\* lowered by one unless it is zero
RECURSIVE decrementLoop(_, _, _, _, _)
decrementLoop(c, r, i, pN, mN) ==
    IF i >= pN THEN c
    ELSE LET idx == (r + i) % mN
         IN  decrementLoop(
                 IF c[idx] >= 1 THEN [c EXCEPT ![idx] = @ - 1] ELSE c,
                 r, i + 1, pN, mN)

\* decrement, r being what rand.Intn(int(s.m)) returned
decrement(c, r, pN, mN) == decrementLoop(c, r, 0, pN, mN)

\* the loop that sets the cells, starting one probe late
RECURSIVE setCellsSkipFirst(_, _, _, _)
setCellsSkipFirst(c, idxs, i, maxN) ==
    IF i + 1 \notin DOMAIN idxs THEN c
    ELSE setCellsSkipFirst([c EXCEPT ![idxs[i + 1]] = maxN], idxs, i + 1,
                           maxN)

\* s.cells[idxs[i]] = s.max for i from the given one to the last
RECURSIVE setCells(_, _, _, _)
setCells(c, idxs, i, maxN) ==
    IF i \notin DOMAIN idxs THEN c
    ELSE setCells([c EXCEPT ![idxs[i]] = maxN], idxs, i + 1, maxN)

\* the k probe indices of a kernel
Indices(kern, kN, mN) == [i \in 0..(kN - 1) |-> Index(kern, i, mN)]

\* member, as the loops of Test and TestAndAdd compute it
Member(c, idxs) == \A i \in DOMAIN idxs : c[idxs[i]] # 0

(***************************************************************************)
(* BloomFilter, the bitset one.  array is the set of the bits that are     *)
(* set.  NewBloomFilter(n, fpRate) takes m = OptimalM(n, fpRate) and       *)
(* k = OptimalK(fpRate), which are floating-point: BloomConfigs lists      *)
(* pairs <<m, k>> they yield (<<0, 0>> for fpRate = 1, <<0, 1>> for n = 0, *)
(* <<1, 1>> for (1, 0.9), <<2, 1>> for (1, 0.5), <<2, 2>> for (1, 0.49),   *)
(* <<3, 2>> for (1, 0.25), <<3, 3>> for (1, 0.24), <<4, 3>> for (1, 0.15)).*)
(***************************************************************************)
BloomConfigs ==
    {<<0, 0>>, <<0, 1>>, <<1, 1>>, <<2, 1>>, <<2, 2>>, <<3, 2>>, <<3, 3>>,
     <<4, 3>>}

NewBloomFilter(mN, kN) ==
    [m |-> mN, k |-> kN, array |-> {}, hash |-> offset64, err |-> NoErr]

\* b.array.Set on the first k - 1 probes only
bitsetSetAllButLast(bits, idxs) ==
    bits \cup {idxs[i] : i \in DOMAIN idxs \ {0}}

\* b.array.Set(idx) for each of the k probes
bitsetSetAll(bits, idxs) == bits \cup {idxs[i] : i \in DOMAIN idxs}

\* the loop of BloomFilter.Test: false at the first probe that is not set
bitsetTestAll(bits, idxs) == \A i \in DOMAIN idxs : idxs[i] \in bits

(***************************************************************************)
(* NewInverseBloomFilter                                                   *)
(***************************************************************************)
maxSize == 1073741824


\* math.Ceil(math.Log2(float64(size))) for 1 <= size <= 2^30: float64 holds
\* these sizes exactly, Log2 is exact on a power of two and off an integer
\* by more than its rounding error on every other size
RECURSIVE CeilLog2(_)
CeilLog2(size) == IF size <= 1 THEN 0 ELSE 1 + CeilLog2((size + 1) \div 2)

RECURSIVE FloorLog2(_)
FloorLog2(size) == IF size <= 1 THEN 0 ELSE 1 + FloorLog2(size \div 2)

\* math.Floor in place of math.Ceil
RoundSizeFloor(size) == Pow2(FloorLog2(size))

\* int(math.Pow(2, math.Ceil(math.Log2(float64(size)))))
RoundSize(size) == Pow2(CeilLog2(size))

\* The value NewInverseBloomFilter returns.  The slice of nil pointers is
\* kept sparse: array maps the indices of the non-nil slots to their
\* pointers, arrayLen is len(array).
NilFilter(e) ==
    [filterNil |-> TRUE, err |-> e, array |-> <<>>, arrayLen |-> 0,
     sizeMask |-> 0, hash |-> offset32]

\* size >= maxSize in place of size > maxSize
NewInverseBloomFilterOffByOne(size) ==
    IF size >= maxSize THEN NilFilter(ErrTooLarge)
    ELSE IF size <= 0 THEN NilFilter(ErrTooSmall)
    ELSE [filterNil |-> FALSE, err |-> NoErr, array |-> <<>>,
          arrayLen |-> RoundSize(size), sizeMask |-> RoundSize(size) - 1,
          hash |-> offset32]

NewInverseBloomFilter(size) ==
    IF size > maxSize THEN NilFilter(ErrTooLarge)
    ELSE IF size <= 0 THEN NilFilter(ErrTooSmall)
    ELSE [filterNil |-> FALSE, err |-> NoErr, array |-> <<>>,
          arrayLen |-> RoundSize(size), sizeMask |-> RoundSize(size) - 1,
          hash |-> offset32]

(***************************************************************************)
(* The state.                                                              *)
(*                                                                         *)
(* newSize, newDone: the argument of NewInverseBloomFilter and whether it  *)
(*   has returned; filterNil, err: what it returned.                       *)
(* array, arrayLen, sizeMask, hash: the fields of the InverseBloomFilter;  *)
(*   hash is the one fnv state all callers of Observe share.               *)
(* heap: the slice headers &key that getAndSet publishes, by pointer; the  *)
(*   pointer of the n-th call of goroutine t is <<t, n>>.                  *)
(* pc, key, h, uindex, oldKeyUnsafe: each goroutine's position in Observe  *)
(*   and its locals (h is the state sum32a.Write loaded).                  *)
(* budget: the calls each goroutine still makes; keyOf: the keys it uses.  *)
(* hist: per goroutine, its completed calls (history, not program state).  *)
(* observed: the keys some Observe has exchanged into a slot so far.       *)
(***************************************************************************)
VARIABLES newSize, newDone, filterNil, err, array, arrayLen, sizeMask, hash,
          heap, pc, key, h, uindex, oldKeyUnsafe, budget, keyOf, hist,
          observed

(***************************************************************************)
(* The state of the Stable Bloom Filter or bitset Bloom filter under test. *)
(*                                                                         *)
(* ctor: the constructor that built it, with its arguments.                *)
(* m, k, p, max, cells, indexBuffer: the fields of the StableBloomFilter;  *)
(*   m, k, bits: those of the BloomFilter (bits is its array).             *)
(* hash64: the fnv state of the filter's hash kernel.                      *)
(* panicked: an operation ended in a run-time panic.                       *)
(* added: the keys added since the last Reset; last: the last operation,   *)
(*   its key and its result (history, not program state).                  *)
(***************************************************************************)
VARIABLES ctor, m, k, p, max, cells, bits, indexBuffer, hash64, panicked,
          added, last

\* A filter's encoding on the wire (<<>> before it is encoded) and the
\* filter decoded from it.
VARIABLES wire, decoded

filterVars == <<filterNil, err, array, arrayLen, sizeMask, hash>>
callVars == <<heap, pc, key, h, uindex, oldKeyUnsafe, budget, keyOf, hist,
              observed>>
inverseVars == <<newSize, newDone, filterVars, callVars>>
bloomVars == <<ctor, m, k, p, max, cells, bits, indexBuffer, hash64,
               panicked, added, last>>
codecVars == <<wire, decoded>>

vars == <<inverseVars, bloomVars, codecVars>>

NilPtr == <<0, 0>>

\* arr[index]
Slot(index) == IF index \in DOMAIN array THEN array[index] ELSE NilPtr

\* *oldKeyPtr, or the nil slice oldKey is declared as
Deref(ptr) == IF ptr = NilPtr THEN <<>> ELSE heap[ptr]

\* bytes.Equal on lengths only
BytesEqualLen(a, b) == Len(a) = Len(b)

\* bytes.Equal
BytesEqual(a, b) == a = b

\* the pointer &key of the call goroutine t is making
KeyUnsafe(t) == <<t, Len(hist[t]) + 1>>

IdleCalls ==
    /\ heap = <<>>
    /\ pc = [t \in Threads |-> "idle"]
    /\ key = [t \in Threads |-> <<>>]
    /\ h = [t \in Threads |-> offset32]
    /\ uindex = [t \in Threads |-> 0]
    /\ oldKeyUnsafe = [t \in Threads |-> NilPtr]
    /\ hist = [t \in Threads |-> <<>>]
    /\ observed = {}

Constructed(size) ==
    LET f == NewInverseBloomFilter(size)
    IN  /\ newSize = size
        /\ newDone = TRUE
        /\ filterNil = f.filterNil
        /\ err = f.err
        /\ array = f.array
        /\ arrayLen = f.arrayLen
        /\ sizeMask = f.sizeMask
        /\ hash = f.hash

(***************************************************************************)
(* Observe, one step per access to the shared hash state or to the slot.   *)
(***************************************************************************)
\* i.hash.Write(key), first half: sum32a.Write loads the state (hash := *s)
Write(t, data) ==
    /\ pc[t] = "idle"
    /\ newDone /\ ~filterNil
    /\ budget[t] > 0
    /\ data \in keyOf[t]
    /\ budget' = [budget EXCEPT ![t] = @ - 1]
    /\ key' = [key EXCEPT ![t] = data]
    /\ heap' = (KeyUnsafe(t) :> data) @@ heap
    /\ h' = [h EXCEPT ![t] = hash]
    /\ pc' = [pc EXCEPT ![t] = "WriteStore"]
    /\ UNCHANGED <<newSize, newDone, filterVars, uindex, oldKeyUnsafe, keyOf,
                   hist, observed>>
    /\ UNCHANGED bloomVars
    /\ UNCHANGED codecVars

\* i.hash.Write(key), second half: the folded state is stored (*s = hash)
WriteStore(t) ==
    /\ pc[t] = "WriteStore"
    /\ hash' = fnv32aFold(h[t], key[t])
    /\ pc' = [pc EXCEPT ![t] = "Sum32"]
    /\ UNCHANGED <<newSize, newDone, filterNil, err, array, arrayLen,
                   sizeMask, heap, key, h, uindex, oldKeyUnsafe, budget,
                   keyOf, hist, observed>>
    /\ UNCHANGED bloomVars
    /\ UNCHANGED codecVars

\* uindex := i.hash.Sum32() & i.sizeMask
Sum32Mask(t) ==
    /\ pc[t] = "Sum32"
    /\ uindex' = [uindex EXCEPT ![t] = AndBits(Sum32(hash), sizeMask)]
    /\ pc' = [pc EXCEPT ![t] = "Reset"]
    /\ UNCHANGED <<newSize, newDone, filterVars, heap, key, h, oldKeyUnsafe,
                   budget, keyOf, hist, observed>>
    /\ UNCHANGED bloomVars
    /\ UNCHANGED codecVars

\* i.hash.Reset()
Reset(t) ==
    /\ pc[t] = "Reset"
    /\ hash' = offset32
    /\ pc' = [pc EXCEPT ![t] = "LoadPointer"]
    /\ UNCHANGED <<newSize, newDone, filterNil, err, array, arrayLen,
                   sizeMask, heap, key, h, uindex, oldKeyUnsafe, budget,
                   keyOf, hist, observed>>
    /\ UNCHANGED bloomVars
    /\ UNCHANGED codecVars

\* getAndSet: oldKeyUnsafe := atomic.LoadPointer(indexPtr)
LoadPointer(t) ==
    /\ pc[t] = "LoadPointer"
    /\ oldKeyUnsafe' = [oldKeyUnsafe EXCEPT ![t] = Slot(uindex[t])]
    /\ pc' = [pc EXCEPT ![t] = "CompareAndSwapPointer"]
    /\ UNCHANGED <<newSize, newDone, filterVars, heap, key, h, uindex, budget,
                   keyOf, hist, observed>>
    /\ UNCHANGED bloomVars
    /\ UNCHANGED codecVars

\* The record of a completed call: its key, the index it exchanged, what
\* Observe returned, and three facts of the moment of the exchange: seen,
\* an Observe had exchanged this key before; held, the slot of the key's own
\* index held bytes equal to the key; prev, the slot's occupant.
Completed(t) ==
    LET own == AndBits(Sum32(fnv32aFold(offset32, key[t])), sizeMask)
    IN  [key |-> key[t],
         index |-> uindex[t],
         ret |-> BytesEqual(Deref(oldKeyUnsafe[t]), key[t]),
         seen |-> key[t] \in observed,
         held |-> Slot(own) # NilPtr /\ heap[Slot(own)] = key[t],
         prev |-> oldKeyUnsafe[t]]

\* getAndSet with a plain store in place of the compare-and-swap: the slot
\* is overwritten whatever it holds
StorePointer(t) ==
    /\ pc[t] = "CompareAndSwapPointer"
    /\ array' = (uindex[t] :> KeyUnsafe(t)) @@ array
    /\ hist' = [hist EXCEPT ![t] = Append(@, Completed(t))]
    /\ observed' = observed \cup {key[t]}
    /\ pc' = [pc EXCEPT ![t] = "idle"]
    /\ UNCHANGED <<newSize, newDone, filterNil, err, arrayLen, sizeMask,
                   hash, heap, key, h, uindex, oldKeyUnsafe, budget, keyOf>>
    /\ UNCHANGED bloomVars
    /\ UNCHANGED codecVars

\* getAndSet: atomic.CompareAndSwapPointer(indexPtr, oldKeyUnsafe, keyUnsafe)
\* succeeds; oldKey is read, getAndSet returns, and Observe returns
\* bytes.Equal(oldID, key)
CompareAndSwapPointer(t) ==
    /\ pc[t] = "CompareAndSwapPointer"
    /\ Slot(uindex[t]) = oldKeyUnsafe[t]
    /\ array' = (uindex[t] :> KeyUnsafe(t)) @@ array
    /\ hist' = [hist EXCEPT ![t] = Append(@, Completed(t))]
    /\ observed' = observed \cup {key[t]}
    /\ pc' = [pc EXCEPT ![t] = "idle"]
    /\ UNCHANGED <<newSize, newDone, filterNil, err, arrayLen, sizeMask,
                   hash, heap, key, h, uindex, oldKeyUnsafe, budget, keyOf>>
    /\ UNCHANGED bloomVars
    /\ UNCHANGED codecVars

\* the compare-and-swap fails: the slot changed since the load; retry
CompareAndSwapRetry(t) ==
    /\ pc[t] = "CompareAndSwapPointer"
    /\ Slot(uindex[t]) # oldKeyUnsafe[t]
    /\ pc' = [pc EXCEPT ![t] = "LoadPointer"]
    /\ UNCHANGED <<newSize, newDone, filterVars, heap, key, h, uindex,
                   oldKeyUnsafe, budget, keyOf, hist, observed>>
    /\ UNCHANGED bloomVars
    /\ UNCHANGED codecVars

Observe(t) ==
    \/ \E data \in keyOf[t] : Write(t, data)
    \/ WriteStore(t)
    \/ Sum32Mask(t)
    \/ Reset(t)
    \/ LoadPointer(t)
    \/ CompareAndSwapPointer(t)
    \/ CompareAndSwapRetry(t)

\* the filter decoded so far: none
NoFilter == [set |-> FALSE]

\* nothing was encoded or decoded
NoCodec == wire = <<>> /\ decoded = NoFilter

\* no Stable or bitset filter is under test
NoBloom ==
    /\ ctor = [name |-> "none", size |-> 0, k |-> 0, p |-> 0, max |-> 0,
               err |-> NoErr]
    /\ m = 0
    /\ k = 0
    /\ p = 0
    /\ max = 0
    /\ cells = <<>>
    /\ bits = {}
    /\ indexBuffer = <<>>
    /\ hash64 = offset64
    /\ panicked = FALSE
    /\ added = {}
    /\ last = [op |-> "none", key |-> <<>>, ret |-> FALSE]

(***************************************************************************)
(* Spec: NThreads goroutines call Observe concurrently on one filter, each *)
(* MaxCalls times with a key of its own (two goroutines may use the same   *)
(* key).                                                                   *)
(***************************************************************************)
ObserveSizes == {1, 2, 3}

Init ==
    /\ \E size \in ObserveSizes : Constructed(size)
    /\ IdleCalls
    /\ budget = [t \in Threads |-> MaxCalls]
    /\ keyOf \in [Threads -> {{data} : data \in Keys}]
    /\ NoBloom
    /\ NoCodec

Next == \E t \in Threads : Observe(t)

Spec == Init /\ [][Next]_vars


(***************************************************************************)
(* SpecNew: NewInverseBloomFilter is called on a size from NewSizes.       *)
(***************************************************************************)
NewSizes == (-2 .. MaxSmallSize) \cup {maxSize - 1, maxSize, maxSize + 1}

NoCalls ==
    /\ IdleCalls
    /\ budget = [t \in Threads |-> 0]
    /\ keyOf = [t \in Threads |-> {}]

InitNew ==
    /\ newSize \in NewSizes
    /\ newDone = FALSE
    /\ filterNil = TRUE
    /\ err = NoErr
    /\ array = <<>>
    /\ arrayLen = 0
    /\ sizeMask = 0
    /\ hash = offset32
    /\ NoCalls
    /\ NoBloom
    /\ NoCodec

New ==
    /\ ~newDone
    /\ newDone' = TRUE
    /\ LET f == NewInverseBloomFilter(newSize)
       IN  /\ filterNil' = f.filterNil
           /\ err' = f.err
           /\ array' = f.array
           /\ arrayLen' = f.arrayLen
           /\ sizeMask' = f.sizeMask
           /\ hash' = f.hash
    /\ UNCHANGED <<newSize, callVars>>
    /\ UNCHANGED bloomVars
    /\ UNCHANGED codecVars

SpecNew == InitNew /\ [][New]_vars

\* InverseBloomFilter.Size
Size == arrayLen

(***************************************************************************)
(* SpecSeq: a sequential execution.  One caller makes MaxSeqCalls calls of *)
(* Observe, each with any key, one after the other.                        *)
(***************************************************************************)
InitSeq ==
    /\ \E size \in ObserveSizes : Constructed(size)
    /\ IdleCalls
    /\ budget = [t \in Threads |-> IF t = 1 THEN MaxSeqCalls ELSE 0]
    /\ keyOf = [t \in Threads |-> IF t = 1 THEN Keys ELSE {}]
    /\ NoBloom
    /\ NoCodec

\* the one caller's steps: its CompareAndSwapPointer finds the slot as its
\* LoadPointer left it, so getAndSet's loop never runs twice
ObserveSeq(t) ==
    \/ \E data \in keyOf[t] : Write(t, data)
    \/ WriteStore(t)
    \/ Sum32Mask(t)
    \/ Reset(t)
    \/ LoadPointer(t)
    \/ CompareAndSwapPointer(t)

NextSeq == ObserveSeq(1)

SpecSeq == InitSeq /\ [][NextSeq]_vars

(***************************************************************************)
(* SpecRace: NThreads goroutines, each with a key of its own, all keys     *)
(* distinct and hashing to the same slot of a filter of size 2; each calls *)
(* Observe with its key MaxCalls times in a loop.  Goroutine t + 1 takes a *)
(* key that comes later in RaceKeys than the key of goroutine t: the       *)
(* goroutines are interchangeable.                                         *)
(***************************************************************************)
RaceSize == 2

RaceAssignments ==
    {a \in [Threads -> 1..Len(RaceKeys)] :
        /\ \A t \in Threads : t + 1 \in Threads => a[t] < a[t + 1]
        /\ \A t, u \in Threads :
              IndexOf(RaceKeys[a[t]], RaceSize - 1)
                  = IndexOf(RaceKeys[a[u]], RaceSize - 1)}

InitRace ==
    /\ Constructed(RaceSize)
    /\ IdleCalls
    /\ budget = [t \in Threads |-> MaxCalls]
    /\ \E a \in RaceAssignments : keyOf = [t \in Threads |-> {RaceKeys[a[t]]}]
    /\ NoBloom
    /\ NoCodec

SpecRace == InitRace /\ [][Next]_vars


(***************************************************************************)
(* The operations of the StableBloomFilter.  r is the value rand.Intn      *)
(* returns; rand.Intn(0) panics, as does a remainder modulo 0.             *)
(***************************************************************************)
IsStable == ctor.name \in {"NewStableBloomFilter", "NewDefaultStableBloomFilter",
                           "NewUnstableBloomFilter"}
IsBloom == ctor.name = "NewBloomFilter"

Done(op, data, ret) == last' = [op |-> op, key |-> data, ret |-> ret]

StableTest(data) ==
    /\ IsStable /\ ~panicked
    /\ LET kern == hashKernel(hash64, data)
           idxs == Indices(kern, k, m)
       IN  /\ indexBuffer' = idxs
           /\ hash64' = kern.hash
           /\ Done("Test", data, Member(cells, idxs))
    /\ UNCHANGED <<ctor, m, k, p, max, cells, bits, panicked, added>>
    /\ UNCHANGED inverseVars
    /\ UNCHANGED codecVars

\* Add with the two halves in the other order: the k cells are set to max,
\* then decrement runs
StableAddSetFirst(data) ==
    /\ IsStable /\ ~panicked
    /\ IF m = 0
       THEN /\ panicked' = TRUE
            /\ Done("Add", data, FALSE)
            /\ UNCHANGED <<cells, hash64, added>>
       ELSE \E r \in 0..(m - 1) :
               LET kern == hashKernel(hash64, data)
                   set == setCells(cells, Indices(kern, k, m), 0, max)
               IN  /\ cells' = decrement(set, r, p, m)
                   /\ hash64' = kern.hash
                   /\ added' = added \cup {data}
                   /\ Done("Add", data, FALSE)
                   /\ UNCHANGED panicked
    /\ UNCHANGED <<ctor, m, k, p, max, bits, indexBuffer>>
    /\ UNCHANGED inverseVars
    /\ UNCHANGED codecVars

StableAdd(data) ==
    /\ IsStable /\ ~panicked
    /\ IF m = 0
       THEN /\ panicked' = TRUE
            /\ Done("Add", data, FALSE)
            /\ UNCHANGED <<cells, hash64, added>>
       ELSE \E r \in 0..(m - 1) :
               LET evicted == decrement(cells, r, p, m)
                   kern == hashKernel(hash64, data)
               IN  /\ cells' = setCells(evicted, Indices(kern, k, m), 0, max)
                   /\ hash64' = kern.hash
                   /\ added' = added \cup {data}
                   /\ Done("Add", data, FALSE)
                   /\ UNCHANGED panicked
    /\ UNCHANGED <<ctor, m, k, p, max, bits, indexBuffer>>
    /\ UNCHANGED inverseVars
    /\ UNCHANGED codecVars

StableTestAndAdd(data) ==
    /\ IsStable /\ ~panicked
    /\ LET kern == hashKernel(hash64, data)
           idxs == Indices(kern, k, m)
           member == Member(cells, idxs)
       IN  /\ indexBuffer' = idxs
           /\ hash64' = kern.hash
           /\ Done("TestAndAdd", data, member)
           /\ IF m = 0
              THEN /\ panicked' = TRUE
                   /\ UNCHANGED <<cells, added>>
              ELSE \E r \in 0..(m - 1) :
                      /\ cells' = setCells(decrement(cells, r, p, m), idxs, 0,
                                           max)
                      /\ added' = added \cup {data}
                      /\ UNCHANGED panicked
    /\ UNCHANGED <<ctor, m, k, p, max, bits>>
    /\ UNCHANGED inverseVars
    /\ UNCHANGED codecVars

StableReset ==
    /\ IsStable /\ ~panicked
    /\ cells' = [i \in 0..(m - 1) |-> 0]
    /\ added' = {}
    /\ Done("Reset", <<>>, FALSE)
    /\ UNCHANGED <<ctor, m, k, p, max, bits, indexBuffer, hash64, panicked>>
    /\ UNCHANGED inverseVars
    /\ UNCHANGED codecVars

(***************************************************************************)
(* The operations of the bitset BloomFilter.                               *)
(***************************************************************************)
\* the loop of BloomFilter.TestAndAdd with Set before Test in its body
RECURSIVE bloomTestAndAddLoopSetFirst(_, _, _, _)
bloomTestAndAddLoopSetFirst(b, idxs, i, member) ==
    IF i \notin DOMAIN idxs THEN <<b, member>>
    ELSE bloomTestAndAddLoopSetFirst(
             b \cup {idxs[i]}, idxs, i + 1,
             member /\ idxs[i] \in (b \cup {idxs[i]}))

\* the loop of BloomFilter.TestAndAdd from probe i on: <<bits, member>>
RECURSIVE bloomTestAndAddLoop(_, _, _, _)
bloomTestAndAddLoop(b, idxs, i, member) ==
    IF i \notin DOMAIN idxs THEN <<b, member>>
    ELSE bloomTestAndAddLoop(b \cup {idxs[i]}, idxs, i + 1,
                             member /\ idxs[i] \in b)

\* the first probe divides by b.m = 0
BloomPanics == k >= 1 /\ m = 0

BloomTest(data) ==
    /\ IsBloom /\ ~panicked
    /\ hash64' = hashKernel(hash64, data).hash
    /\ IF BloomPanics
       THEN panicked' = TRUE /\ Done("Test", data, FALSE)
       ELSE /\ Done("Test", data,
                    bitsetTestAll(bits, Indices(hashKernel(hash64, data), k, m)))
            /\ UNCHANGED panicked
    /\ UNCHANGED <<ctor, m, k, p, max, cells, bits, indexBuffer, added>>
    /\ UNCHANGED inverseVars
    /\ UNCHANGED codecVars

BloomAdd(data) ==
    /\ IsBloom /\ ~panicked
    /\ hash64' = hashKernel(hash64, data).hash
    /\ IF BloomPanics
       THEN panicked' = TRUE /\ UNCHANGED <<bits, added>>
       ELSE /\ bits' = bitsetSetAll(bits, Indices(hashKernel(hash64, data), k, m))
            /\ added' = added \cup {data}
            /\ UNCHANGED panicked
    /\ Done("Add", data, FALSE)
    /\ UNCHANGED <<ctor, m, k, p, max, cells, indexBuffer>>
    /\ UNCHANGED inverseVars
    /\ UNCHANGED codecVars

BloomTestAndAdd(data) ==
    /\ IsBloom /\ ~panicked
    /\ hash64' = hashKernel(hash64, data).hash
    /\ IF BloomPanics
       THEN /\ panicked' = TRUE
            /\ Done("TestAndAdd", data, FALSE)
            /\ UNCHANGED <<bits, added>>
       ELSE LET res == bloomTestAndAddLoop(
                           bits, Indices(hashKernel(hash64, data), k, m), 0, TRUE)
            IN  /\ bits' = res[1]
                /\ added' = added \cup {data}
                /\ Done("TestAndAdd", data, res[2])
                /\ UNCHANGED panicked
    /\ UNCHANGED <<ctor, m, k, p, max, cells, indexBuffer>>
    /\ UNCHANGED inverseVars
    /\ UNCHANGED codecVars

BloomReset ==
    /\ IsBloom /\ ~panicked
    /\ bits' = {}
    /\ added' = {}
    /\ Done("Reset", <<>>, FALSE)
    /\ UNCHANGED <<ctor, m, k, p, max, cells, indexBuffer, hash64, panicked>>
    /\ UNCHANGED inverseVars
    /\ UNCHANGED codecVars

(***************************************************************************)
(* SpecFilter: one Stable or bitset Bloom filter, built by one of the      *)
(* constructors on arguments within the bounds, and any sequence of Test,  *)
(* Add, TestAndAdd and Reset on it by one caller.                          *)
(***************************************************************************)
\* cells of the largest filter
MaxM == 3
\* largest max (cell ceiling) a filter is built with
MaxMax == 2

FilterKeys == {<<>>, <<97>>, <<98>>}

Built(name, size, kArg, pArg, maxArg, f) ==
    /\ ctor = [name |-> name, size |-> size, k |-> kArg, p |-> pArg,
               max |-> maxArg, err |-> f.err]
    /\ m = f.m
    /\ k = f.k
    /\ p = f.p
    /\ max = f.max
    /\ cells = f.cells
    /\ indexBuffer = f.indexBuffer
    /\ hash64 = f.hash
    /\ bits = {}

InitFilter ==
    /\ \/ \E size \in 0..MaxM, kArg \in 0..(MaxM + 1), pArg \in 0..(MaxM + 1),
             maxArg \in 0..MaxMax :
             Built("NewStableBloomFilter", size, kArg, pArg, maxArg,
                   NewStableBloomFilter(size, kArg, pArg, maxArg))
       \/ \E size \in 0..MaxM :
             Built("NewDefaultStableBloomFilter", size, 3, 10, 1,
                   NewDefaultStableBloomFilter(size))
       \/ \E size \in 0..MaxM, kArg \in 0..(MaxM + 1) :
             Built("NewUnstableBloomFilter", size, kArg, 0, 1,
                   NewUnstableBloomFilter(size, kArg))
       \/ \E c \in BloomConfigs :
             LET f == NewBloomFilter(c[1], c[2])
             IN  /\ ctor = [name |-> "NewBloomFilter", size |-> c[1],
                            k |-> c[2], p |-> 0, max |-> 1,
                            err |-> f.err]
                 /\ m = f.m
                 /\ k = f.k
                 /\ bits = f.array
                 /\ hash64 = f.hash
                 /\ p = 0
                 /\ max = 1
                 /\ cells = <<>>
                 /\ indexBuffer = <<>>
    /\ panicked = FALSE
    /\ added = {}
    /\ last = [op |-> "none", key |-> <<>>, ret |-> FALSE]
    /\ newSize = 0
    /\ newDone = FALSE
    /\ filterNil = TRUE
    /\ err = NoErr
    /\ array = <<>>
    /\ arrayLen = 0
    /\ sizeMask = 0
    /\ hash = offset32
    /\ NoCalls
    /\ NoCodec

NextFilter ==
    \/ \E data \in FilterKeys : StableTest(data)
    \/ \E data \in FilterKeys : StableAdd(data)
    \/ \E data \in FilterKeys : StableTestAndAdd(data)
    \/ StableReset
    \/ \E data \in FilterKeys : BloomTest(data)
    \/ \E data \in FilterKeys : BloomAdd(data)
    \/ \E data \in FilterKeys : BloomTestAndAdd(data)
    \/ BloomReset

SpecFilter == InitFilter /\ [][NextFilter]_vars

(***************************************************************************)
(* Serialization.  An encoding is the configuration scalars m, k, p, max   *)
(* in this order, each a fixed-width big-endian field, followed by the raw *)
(* backing bytes: the cells of a Stable filter, one byte each, or the bits *)
(* of a bitset filter, eight to a byte.  Decoding into a filter of another *)
(* configuration fails.                                                    *)
(***************************************************************************)
\* bytes of one scalar field
ScalarBytes == 4

ErrMismatch == "configuration mismatch"

\* a scalar with the least significant byte first
EncodeScalarLittleEndian(n) ==
    [i \in 1..ScalarBytes |-> (n \div (256 ^ (i - 1))) % 256]

\* a scalar as ScalarBytes bytes, most significant first
EncodeScalar(n) ==
    [i \in 1..ScalarBytes |-> (n \div (256 ^ (ScalarBytes - i))) % 256]

RECURSIVE DecodeScalarFrom(_, _, _)
DecodeScalarFrom(bytes, i, acc) ==
    IF i > ScalarBytes THEN acc
    ELSE DecodeScalarFrom(bytes, i + 1, acc * 256 + bytes[i])

\* the scalar of the field-th field of an encoding
DecodeScalar(bytes, field) ==
    DecodeScalarFrom(
        SubSeq(bytes, (field - 1) * ScalarBytes + 1, field * ScalarBytes),
        1, 0)

\* bytes that hold mN bits
PackedLen(mN) == (mN + 7) \div 8

\* byte j of the packed bits, from its bit b on: bit b of byte j is bit
\* 8 * (j - 1) + b of the set
RECURSIVE PackByte(_, _, _)
PackByte(set, j, b) ==
    IF b > 7 THEN 0
    ELSE (IF 8 * (j - 1) + b \in set THEN 2 ^ b ELSE 0) + PackByte(set, j, b + 1)

PackBits(set, mN) == [j \in 1..PackedLen(mN) |-> PackByte(set, j, 0)]

UnpackBits(bytes, mN) ==
    {n \in 0..(mN - 1) : (bytes[(n \div 8) + 1] \div (2 ^ (n % 8))) % 2 = 1}

\* the backing bytes of the filter under test
Backing ==
    IF IsBloom THEN PackBits(bits, m)
    ELSE [i \in 1..m |-> cells[i - 1]]

HeaderLen == 4 * ScalarBytes

\* the encoding of the filter under test
EncodeFilter ==
    EncodeScalar(m) \o EncodeScalar(k) \o EncodeScalar(p) \o EncodeScalar(max)
        \o Backing

\* bytes decoded into a filter with the configuration of the filter under
\* test (a fresh filter of the same constructor and arguments)
DecodeFilter(bytes) ==
    IF \/ Len(bytes) < HeaderLen
       \/ DecodeScalar(bytes, 1) # m
       \/ DecodeScalar(bytes, 2) # k
       \/ DecodeScalar(bytes, 3) # p
       \/ DecodeScalar(bytes, 4) # max
       \/ Len(bytes) # HeaderLen + (IF IsBloom THEN PackedLen(m) ELSE m)
    THEN [set |-> TRUE, err |-> ErrMismatch]
    ELSE LET data == SubSeq(bytes, HeaderLen + 1, Len(bytes))
         IN  [set |-> TRUE, err |-> NoErr,
              m |-> DecodeScalar(bytes, 1),
              k |-> DecodeScalar(bytes, 2),
              p |-> DecodeScalar(bytes, 3),
              max |-> DecodeScalar(bytes, 4),
              cells |-> IF IsBloom THEN <<>>
                        ELSE [i \in 0..(m - 1) |-> data[i + 1]],
              bits |-> IF IsBloom THEN UnpackBits(data, m) ELSE {},
              hash |-> offset64]

Encode ==
    /\ (IsStable \/ IsBloom) /\ ~panicked
    /\ wire = <<>>
    /\ wire' = EncodeFilter
    /\ UNCHANGED decoded
    /\ UNCHANGED <<inverseVars, bloomVars>>

Decode ==
    /\ wire # <<>>
    /\ decoded = NoFilter
    /\ decoded' = DecodeFilter(wire)
    /\ UNCHANGED wire
    /\ UNCHANGED <<inverseVars, bloomVars>>

\* a call on the filter under test, before it is encoded
FilterCall == wire = <<>> /\ NextFilter

(***************************************************************************)
(* SpecCodec: a filter of SpecFilter, after any calls on it, is encoded    *)
(* and the bytes are decoded into a filter of the same configuration.      *)
(***************************************************************************)
NextCodec == FilterCall \/ Encode \/ Decode

SpecCodec == InitFilter /\ [][NextCodec]_vars

(***************************************************************************)
(* float64 values of StablePoint and FalsePositiveRate.  A value is NaN,   *)
(* +Inf, -Inf or a non-negative rational num / den kept exactly, num and   *)
(* den being naturals of BigLimbs limbs in base BigBase, least significant *)
(* limb first.  The values the code computes are 0, 1, Inf and NaN, which  *)
(* float64 holds exactly, or lie far from the rounding boundaries they are *)
(* compared with (the rounding error of float64 is below 10^-15).          *)
(***************************************************************************)
\* limbs of a natural
BigLimbs == 6

BigBase == 100 * 100

RECURSIVE BigFrom(_, _)
BigFrom(n, i) ==
    IF i > BigLimbs THEN <<>>
    ELSE <<n % BigBase>> \o BigFrom(n \div BigBase, i + 1)

\* the natural n < 2^31 as limbs
Big(n) == BigFrom(n, 1)

BigIsZero(a) == \A i \in 1..BigLimbs : a[i] = 0

RECURSIVE BigCarry(_, _, _)
BigCarry(c, i, carry) ==
    IF i > BigLimbs THEN <<>>
    ELSE <<(c[i] + carry) % BigBase>>
             \o BigCarry(c, i + 1, (c[i] + carry) \div BigBase)

BigAdd(a, b) == BigCarry([i \in 1..BigLimbs |-> a[i] + b[i]], 1, 0)

RECURSIVE BigBorrow(_, _, _, _)
BigBorrow(a, b, i, borrow) ==
    IF i > BigLimbs THEN <<>>
    ELSE LET d == a[i] - b[i] - borrow
         IN  <<d % BigBase>>
                 \o BigBorrow(a, b, i + 1, IF d < 0 THEN 1 ELSE 0)

\* a - b, for a >= b
BigSub(a, b) == BigBorrow(a, b, 1, 0)

RECURSIVE BigConv(_, _, _, _)
BigConv(a, b, n, i) ==
    IF i > n THEN 0 ELSE a[i] * b[n + 1 - i] + BigConv(a, b, n, i + 1)

BigMul(a, b) == BigCarry([n \in 1..BigLimbs |-> BigConv(a, b, n, 1)], 1, 0)

RECURSIVE BigLessFrom(_, _, _)
BigLessFrom(a, b, i) ==
    IF i < 1 THEN FALSE
    ELSE IF a[i] # b[i] THEN a[i] < b[i]
    ELSE BigLessFrom(a, b, i - 1)

BigLess(a, b) == BigLessFrom(a, b, BigLimbs)

NaN == [kind |-> "NaN"]
Inf == [kind |-> "+Inf"]
NegInf == [kind |-> "-Inf"]
Num(n, d) == [kind |-> "num", num |-> n, den |-> d]
FloatOf(n) == Num(Big(n), Big(1))
IsNum(x) == x.kind = "num"
IsZero(x) == IsNum(x) /\ BigIsZero(x.num)
\* x = n / d for naturals n, d with d > 0
FloatIs(x, n, d) ==
    IsNum(x) /\ BigMul(x.num, Big(d)) = BigMul(Big(n), x.den)

\* 1 / x, for x >= +0
FloatInv(x) ==
    IF x.kind = "NaN" THEN NaN
    ELSE IF x.kind \in {"+Inf", "-Inf"} THEN FloatOf(0)
    ELSE IF IsZero(x) THEN Inf
    ELSE Num(x.den, x.num)

\* x - y, for numbers x >= y
FloatSub(x, y) ==
    IF x.kind = "NaN" \/ y.kind = "NaN" THEN NaN
    ELSE IF ~IsNum(x) /\ x.kind = y.kind THEN NaN
    ELSE IF ~IsNum(x) THEN x
    ELSE IF y.kind = "+Inf" THEN NegInf
    ELSE IF y.kind = "-Inf" THEN Inf
    ELSE Num(BigSub(BigMul(x.num, y.den), BigMul(y.num, x.den)),
             BigMul(x.den, y.den))

\* x + y, for x, y >= 0
FloatAdd(x, y) ==
    IF x.kind = "NaN" \/ y.kind = "NaN" THEN NaN
    ELSE IF ~IsNum(x) THEN x
    ELSE IF ~IsNum(y) THEN y
    ELSE Num(BigAdd(BigMul(x.num, y.den), BigMul(y.num, x.den)),
             BigMul(x.den, y.den))

\* x * y, for x, y >= 0
FloatMul(x, y) ==
    IF x.kind = "NaN" \/ y.kind = "NaN" THEN NaN
    ELSE IF (~IsNum(x) /\ IsZero(y)) \/ (IsZero(x) /\ ~IsNum(y)) THEN NaN
    ELSE IF ~IsNum(x) THEN x
    ELSE IF ~IsNum(y) THEN y
    ELSE Num(BigMul(x.num, y.num), BigMul(x.den, y.den))

RECURSIVE PowNat(_, _)
PowNat(x, n) == IF n = 0 THEN FloatOf(1) ELSE FloatMul(x, PowNat(x, n - 1))

\* math.Pow(x, float64(n)) for a natural n: Pow(x, 0) is 1 for every x, NaN
\* included
Pow(x, n) ==
    IF n = 0 THEN FloatOf(1)
    ELSE IF x.kind = "NaN" THEN NaN
    ELSE IF x.kind = "-Inf" THEN (IF n % 2 = 1 THEN NegInf ELSE Inf)
    ELSE PowNat(x, n)

(***************************************************************************)
(* StablePoint and FalsePositiveRate                                       *)
(***************************************************************************)
\* the limit of the expected fraction of zero cells
StablePoint(kN, mN, pN, maxN) ==
    LET subDenom == FloatMul(FloatOf(pN),
                             FloatSub(FloatInv(FloatOf(kN)),
                                      FloatInv(FloatOf(mN))))
        denom == FloatAdd(FloatOf(1), FloatInv(subDenom))
        base == FloatInv(denom)
    IN  Pow(base, maxN)

FalsePositiveRate(kN, mN, pN, maxN) ==
    Pow(FloatSub(FloatOf(1), StablePoint(kN, mN, pN, maxN)), kN)

\* x >= y; false when either is NaN
FloatGeq(x, y) ==
    IF x.kind = "NaN" \/ y.kind = "NaN" THEN FALSE
    ELSE IF x.kind = "+Inf" \/ y.kind = "-Inf" THEN TRUE
    ELSE IF x.kind = "-Inf" \/ y.kind = "+Inf" THEN FALSE
    ELSE ~BigLess(BigMul(x.num, y.den), BigMul(y.num, x.den))

\* x > y; false when either is NaN
FloatGt(x, y) == FloatGeq(x, y) /\ ~FloatGeq(y, x)

\* round(val, roundOn, places) for 0 <= val <= 1: NaN and Inf pass through
\* Modf, Floor and the division unchanged
round(val, roundOn, places) ==
    IF ~IsNum(val) THEN val
    ELSE LET pow == 10 ^ places
             digit == Num(BigMul(Big(pow), val.num), val.den)
             floor == CHOOSE d \in 0..pow :
                          /\ FloatGeq(digit, FloatOf(d))
                          /\ ~FloatGeq(digit, FloatOf(d + 1))
             div == FloatSub(digit, FloatOf(floor))
             ceil == IF IsZero(div) THEN floor ELSE floor + 1
         IN  IF FloatGeq(div, roundOn) THEN Num(Big(ceil), Big(pow))
             ELSE Num(Big(floor), Big(pow))

\* the size of the filter of TestFalsePositiveRate
TestSize == 1000

StablePointCall ==
    /\ IsStable
    /\ last' = [op |-> "StablePoint", key |-> <<>>,
                ret |-> StablePoint(k, m, p, max)]
    /\ UNCHANGED <<ctor, m, k, p, max, cells, bits, indexBuffer, hash64,
                   panicked, added>>
    /\ UNCHANGED inverseVars
    /\ UNCHANGED codecVars

FalsePositiveRateCall ==
    /\ IsStable
    /\ last' = [op |-> "FalsePositiveRate", key |-> <<>>,
                ret |-> FalsePositiveRate(k, m, p, max)]
    /\ UNCHANGED <<ctor, m, k, p, max, cells, bits, indexBuffer, hash64,
                   panicked, added>>
    /\ UNCHANGED inverseVars
    /\ UNCHANGED codecVars

InitRate ==
    /\ \/ \E size \in 0..MaxM, kArg \in 0..(MaxM + 1), pArg \in 0..(MaxM + 1),
             maxArg \in 0..MaxMax :
             Built("NewStableBloomFilter", size, kArg, pArg, maxArg,
                   NewStableBloomFilter(size, kArg, pArg, maxArg))
       \/ \E size \in (0..MaxM) \cup {TestSize} :
             Built("NewDefaultStableBloomFilter", size, 3, 10, 1,
                   NewDefaultStableBloomFilter(size))
       \/ \E size \in (0..MaxM) \cup {TestSize}, kArg \in 0..(MaxM + 1) :
             Built("NewUnstableBloomFilter", size, kArg, 0, 1,
                   NewUnstableBloomFilter(size, kArg))
    /\ panicked = FALSE
    /\ added = {}
    /\ last = [op |-> "none", key |-> <<>>, ret |-> FALSE]
    /\ newSize = 0
    /\ newDone = FALSE
    /\ filterNil = TRUE
    /\ err = NoErr
    /\ array = <<>>
    /\ arrayLen = 0
    /\ sizeMask = 0
    /\ hash = offset32
    /\ NoCalls
    /\ NoCodec

NextRate == StablePointCall \/ FalsePositiveRateCall

SpecRate == InitRate /\ [][NextRate]_vars

(***************************************************************************)
(* Add in its two steps: decrement, then the loop that sets the k cells.   *)
(* Between the two, last holds the key of the call and the start index r   *)
(* that rand.Intn returned.                                                *)
(***************************************************************************)
BetweenCalls == last.op # "decrement"

AddDecrement(data) ==
    /\ IsStable /\ ~panicked /\ BetweenCalls
    /\ IF m = 0
       THEN /\ panicked' = TRUE
            /\ Done("Add", data, FALSE)
            /\ UNCHANGED cells
       ELSE \E r \in 0..(m - 1) :
               /\ cells' = decrement(cells, r, p, m)
               /\ Done("decrement", data, r)
               /\ UNCHANGED panicked
    /\ UNCHANGED <<ctor, m, k, p, max, bits, indexBuffer, hash64, added>>
    /\ UNCHANGED inverseVars
    /\ UNCHANGED codecVars

AddSetCells ==
    /\ IsStable /\ ~panicked /\ ~BetweenCalls
    /\ LET kern == hashKernel(hash64, last.key)
       IN  /\ cells' = setCells(cells, Indices(kern, k, m), 0, max)
           /\ hash64' = kern.hash
           /\ added' = added \cup {last.key}
           /\ Done("Add", last.key, FALSE)
    /\ UNCHANGED <<ctor, m, k, p, max, bits, indexBuffer, panicked>>
    /\ UNCHANGED inverseVars
    /\ UNCHANGED codecVars

ResetCall == BetweenCalls /\ StableReset

InitEvict == InitFilter /\ IsStable

NextEvict ==
    \/ \E data \in FilterKeys : AddDecrement(data)
    \/ AddSetCells
    \/ ResetCall

SpecEvict == InitEvict /\ [][NextEvict]_vars

(***************************************************************************)
(* SpecLive: goroutine 1 calls Observe once while the other goroutines     *)
(* call it in an endless loop.  No history is kept.  The key of a call is  *)
(* a fresh heap object (&key escapes); it gets the first address that no   *)
(* slot and no oldKeyUnsafe refers to, as an allocator that reuses garbage *)
(* would give it, at the moment the exchange publishes it.                 *)
(***************************************************************************)
Loopers == Threads \ {1}

\* the addresses something still refers to
Live == {array[i] : i \in DOMAIN array} \cup {oldKeyUnsafe[t] : t \in Threads}

\* &key of a call of goroutine t: an object no reference leads to
FreshKeyUnsafe(t) ==
    <<t, CHOOSE n \in 1..(Cardinality(Live) + 1) :
            /\ <<t, n>> \notin Live
            /\ \A j \in 1..(n - 1) : <<t, j>> \in Live>>

WriteLive(t, data) ==
    /\ pc[t] = "idle"
    /\ newDone /\ ~filterNil
    /\ budget[t] > 0
    /\ data \in keyOf[t]
    /\ budget' = [budget EXCEPT ![t] = IF t \in Loopers THEN @ ELSE @ - 1]
    /\ key' = [key EXCEPT ![t] = data]
    /\ h' = [h EXCEPT ![t] = hash]
    /\ pc' = [pc EXCEPT ![t] = "WriteStore"]
    /\ UNCHANGED <<newSize, newDone, filterVars, heap, uindex, oldKeyUnsafe,
                   keyOf, hist, observed>>
    /\ UNCHANGED bloomVars
    /\ UNCHANGED codecVars

CompareAndSwapLive(t) ==
    /\ pc[t] = "CompareAndSwapPointer"
    /\ Slot(uindex[t]) = oldKeyUnsafe[t]
    /\ array' = (uindex[t] :> FreshKeyUnsafe(t)) @@ array
    /\ heap' = (FreshKeyUnsafe(t) :> key[t]) @@ heap
    /\ observed' = observed \cup {key[t]}
    /\ oldKeyUnsafe' = [oldKeyUnsafe EXCEPT ![t] = NilPtr]
    /\ pc' = [pc EXCEPT ![t] = "idle"]
    /\ UNCHANGED <<newSize, newDone, filterNil, err, arrayLen, sizeMask,
                   hash, key, h, uindex, budget, keyOf, hist>>
    /\ UNCHANGED bloomVars
    /\ UNCHANGED codecVars

ObserveLive(t) ==
    \/ \E data \in keyOf[t] : WriteLive(t, data)
    \/ WriteStore(t)
    \/ Sum32Mask(t)
    \/ Reset(t)
    \/ LoadPointer(t)
    \/ CompareAndSwapLive(t)
    \/ CompareAndSwapRetry(t)

\* the keys of the goroutines
LiveKeys == {EmptyKey, <<2>>}

\* one slot: every key is a key of the same slot
LiveSize == 1

InitLive ==
    /\ Constructed(LiveSize)
    /\ IdleCalls
    /\ budget = [t \in Threads |-> 1]
    /\ keyOf \in [Threads -> {{data} : data \in LiveKeys}]
    /\ NoBloom
    /\ NoCodec

NextLive == \E t \in Threads : ObserveLive(t)

\* every goroutine that can take a step eventually takes one
FairLive == \A t \in Threads : WF_vars(ObserveLive(t))

SpecLive == InitLive /\ [][NextLive]_vars /\ FairLive

(***************************************************************************)
(* SpecAlias: a sequential caller that keeps its keys in one buffer.       *)
(* Before each call it overwrites the buffer with the next key and passes  *)
(* the buffer to Observe.  getAndSet stores &key, the address of a slice   *)
(* header whose bytes are the caller's buffer: no byte is copied, so every *)
(* header stored by an earlier call reads the buffer's present contents.   *)
(* All keys have the same length, so a header's length never exceeds what  *)
(* the buffer holds.                                                       *)
(***************************************************************************)
AliasKeys == {twentyNineId, thirtyId, thirtyFiveId}

\* buf = data; i.hash.Write(buf), first half
WriteReused(t, data) ==
    /\ pc[t] = "idle"
    /\ newDone /\ ~filterNil
    /\ budget[t] > 0
    /\ data \in keyOf[t]
    /\ budget' = [budget EXCEPT ![t] = @ - 1]
    /\ key' = [key EXCEPT ![t] = data]
    /\ heap' = [q \in DOMAIN heap \cup {KeyUnsafe(t)} |->
                   IF q[1] = t THEN data ELSE heap[q]]
    /\ h' = [h EXCEPT ![t] = hash]
    /\ pc' = [pc EXCEPT ![t] = "WriteStore"]
    /\ UNCHANGED <<newSize, newDone, filterVars, uindex, oldKeyUnsafe, keyOf,
                   hist, observed>>
    /\ UNCHANGED bloomVars
    /\ UNCHANGED codecVars

ObserveAlias(t) ==
    \/ \E data \in keyOf[t] : WriteReused(t, data)
    \/ WriteStore(t)
    \/ Sum32Mask(t)
    \/ Reset(t)
    \/ LoadPointer(t)
    \/ CompareAndSwapPointer(t)

InitAlias ==
    /\ \E size \in ObserveSizes : Constructed(size)
    /\ IdleCalls
    /\ budget = [t \in Threads |-> IF t = 1 THEN MaxSeqCalls ELSE 0]
    /\ keyOf = [t \in Threads |-> IF t = 1 THEN AliasKeys ELSE {}]
    /\ NoBloom
    /\ NoCodec

NextAlias == ObserveAlias(1)

SpecAlias == InitAlias /\ [][NextAlias]_vars

(***************************************************************************)
(* SpecSum: a sequential caller on small and large filters, with keys that *)
(* include one whose FNV-1a digest is 0xFFFFFFD2: its first three bytes    *)
(* are all 255, the largest value uintHash.Sum32 can fold.                 *)
(***************************************************************************)
maxSumKey == <<0, 40, 141, 238>>

SumKeys == {EmptyKey, thirtyId, maxSumKey}

\* 32769 is rounded to 65536 slots, maxSize is 2^30 slots
SumSizes == {2, 32769, maxSize}

InitSum ==
    /\ \E size \in SumSizes : Constructed(size)
    /\ IdleCalls
    /\ budget = [t \in Threads |-> IF t = 1 THEN MaxSeqCalls ELSE 0]
    /\ keyOf = [t \in Threads |-> IF t = 1 THEN SumKeys ELSE {}]
    /\ NoBloom
    /\ NoCodec

SpecSum == InitSum /\ [][NextSeq]_vars

(***************************************************************************)
(* The claims.                                                             *)
(***************************************************************************)
\* the completed calls, as <<goroutine, position in its history>>
Calls == {c \in Threads \X (1..(MaxCalls + MaxSeqCalls)) : c[2] <= Len(hist[c[1]])}
Call(c) == hist[c[1]][c[2]]
TrueCount == Cardinality({c \in Calls : Call(c).ret})
AllReturned == \A t \in Threads : pc[t] = "idle" /\ budget[t] = 0

\* C2: Observe never reports a false positive: under every interleaving, a
\* call returns true only if an Observe had exchanged a key with the same
\* bytes into a slot before it; in particular the first Observe of a key on
\* a fresh filter returns false.
C2_NoFalsePositive == \A c \in Calls : Call(c).ret => Call(c).seen

\* C3: in a sequential execution Observe(x) returns true iff the slot at
\* index hash(x) & sizeMask holds bytes equal to x at the call (false on an
\* empty slot), it exchanges that slot, the slot holds x afterwards and an
\* immediately repeated Observe(x) returns true.
C3_SeqObserve ==
    /\ \A c \in Calls :
          /\ Call(c).ret <=> Call(c).held
          /\ Call(c).index = IndexOf(Call(c).key, sizeMask)
          /\ c[2] > 1 /\ Call(<<c[1], c[2] - 1>>).key = Call(c).key
                => Call(c).ret
    /\ \A t \in Threads :
          pc[t] = "idle" /\ hist[t] # <<>>
              => LET x == hist[t][Len(hist[t])].key
                 IN  /\ Slot(IndexOf(x, sizeMask)) # NilPtr
                     /\ Deref(Slot(IndexOf(x, sizeMask))) = x

\* C4: under every interleaving each Observe call exchanges the slot at
\* index hash(its own key) & sizeMask, the index it computes when it runs
\* alone.
C4_OwnIndex ==
    /\ \A t \in Threads :
          pc[t] \in {"LoadPointer", "CompareAndSwapPointer"}
              => uindex[t] = IndexOf(key[t], sizeMask)
    /\ \A c \in Calls : Call(c).index = IndexOf(Call(c).key, sizeMask)

\* the calls of the sequential caller start with the keys in ks, on a
\* filter of size 2
Basics(ks) ==
    /\ Size = 2
    /\ Len(hist[1]) >= Len(ks)
    /\ \A i \in 1..Len(ks) : hist[1][i].key = ks[i]

\* C5 as claimed: in a filter of size 2, after observing {27,28,29}, the
\* key {27,28,30} collides on the same slot and is reported unobserved, and
\* {27,28,29}, observed again after it, is reported unobserved too.
C5_AsClaimed ==
    /\ Basics(<<twentyNineId, thirtyId>>)
          => ~hist[1][2].ret /\ hist[1][2].index = hist[1][1].index
    /\ Basics(<<twentyNineId, thirtyId, twentyNineId>>) => ~hist[1][3].ret

\* C5 as amended: {27,28,30} is reported unobserved because its slot is
\* empty; it goes to the other slot than {27,28,29}, which is still held
\* and reported observed when observed again.  The key that collides with
\* {27,28,30} is {27,28,35}: observed after it, it is reported unobserved
\* and evicts {27,28,30}, which is reported unobserved when observed next.
C5_Basics ==
    /\ Basics(<<twentyNineId, thirtyId>>)
          => /\ ~hist[1][1].ret
             /\ ~hist[1][2].ret
             /\ hist[1][2].index # hist[1][1].index
             /\ hist[1][2].prev = NilPtr
    /\ Basics(<<twentyNineId, thirtyId, twentyNineId>>) => hist[1][3].ret
    /\ Basics(<<thirtyId, thirtyFiveId>>)
          => ~hist[1][2].ret /\ hist[1][2].index = hist[1][1].index
    /\ Basics(<<thirtyId, thirtyFiveId, thirtyId>>) => ~hist[1][3].ret

C5_Witness ==
    /\ Basics(<<twentyNineId, thirtyId, twentyNineId>>)
    /\ pc[1] = "idle"
    /\ hist[1][3].ret

\* the keys the goroutines submit, and the slot they all hash to
Submitted == UNION {keyOf[t] : t \in Threads}
RaceSlot == IndexOf(CHOOSE data \in Submitted : TRUE, sizeMask)

\* C6: goroutines observing distinct keys of one slot never leave a torn
\* key in it: the slot is empty or holds one complete submitted key in
\* every state, and holds one of the submitted keys once all calls have
\* returned.
C6_NoTornWrite ==
    /\ Slot(RaceSlot) = NilPtr \/ Deref(Slot(RaceSlot)) \in Submitted
    /\ AllReturned
          => Slot(RaceSlot) # NilPtr /\ Deref(Slot(RaceSlot)) \in Submitted

\* C7 as claimed: with NThreads goroutines observing distinct keys of one
\* slot in a loop, at most NThreads - 1 calls in total return true (stated
\* here for non-empty keys only).
C7_AsClaimed == EmptyKey \notin Submitted => TrueCount <= NThreads - 1

\* the goroutines that have completed a call and use a non-empty key
FirstFalse == {t \in Threads : hist[t] # <<>> /\ hist[t][1].key # <<>>}

\* C7 as amended: the first call of every goroutine whose key is not empty
\* returns false, so the number of calls that have returned true is at
\* most the number of completed calls less the number of such goroutines
\* (N*L - (N - 1) once N goroutines have made L calls each, keys distinct).
C7_TrueCount ==
    /\ TrueCount <= Cardinality(Calls) - Cardinality(FirstFalse)
    /\ AllReturned => TrueCount <= NThreads * MaxCalls - (NThreads - 1)

C7_Witness ==
    /\ AllReturned
    /\ EmptyKey \notin Submitted
    /\ TrueCount > NThreads - 1
    /\ TrueCount = NThreads * (MaxCalls - 1)

IsPow2(n) == \E e \in 0..30 : n = 2^e

\* C8: NewInverseBloomFilter returns an error and a nil filter exactly when
\* size <= 0 or size > 2^30, and a filter and no error for every size in
\* 1 .. 2^30.
C8_SizeError ==
    newDone =>
        /\ (newSize <= 0 \/ newSize > 2^30) => filterNil /\ err # NoErr
        /\ (1 <= newSize /\ newSize <= 2^30) => ~filterNil /\ err = NoErr

C8_Witness == newDone /\ newSize = 2^30 + 1 /\ filterNil /\ err = ErrTooLarge

\* C9: for an accepted size, Size() is the smallest power of two that is
\* >= size (3 -> 4, 4 -> 4, 129 -> 256), every slot is empty and sizeMask
\* is Size() - 1.
C9_SizeRounding ==
    newDone /\ ~filterNil =>
        /\ IsPow2(Size)
        /\ Size >= newSize
        /\ Size > 1 => (Size \div 2) < newSize
        /\ newSize = 3 => Size = 4
        /\ newSize = 4 => Size = 4
        /\ newSize = 129 => Size = 256
        /\ DOMAIN array = {}
        /\ sizeMask = Size - 1

C9_Witness == newDone /\ ~filterNil /\ newSize = 129 /\ Size = 256


(***************************************************************************)
(* Claims on the Stable and bitset Bloom filters.                          *)
(***************************************************************************)
Min(a, b) == IF a < b THEN a ELSE b

\* what Test(data) returns in the current state
TestOf(data) ==
    IF IsBloom
    THEN bitsetTestAll(bits, Indices(hashKernel(hash64, data), k, m))
    ELSE Member(cells, Indices(hashKernel(hash64, data), k, m))

\* a filter that never evicts: the bitset BloomFilter, or a Stable filter
\* with p = 0 whose cells are set to a non-zero max (NewUnstableBloomFilter)
NoEviction == IsBloom \/ (IsStable /\ p = 0 /\ max >= 1)

\* C1: without eviction there are no false negatives: every key added by
\* Add or TestAndAdd since the last Reset tests true, whatever was added or
\* tested after it.
C1_NoFalseNegative ==
    NoEviction /\ ~panicked =>
        /\ \A x \in added : TestOf(x)
        /\ last.op = "Test" /\ last.key \in added => last.ret

C1_Witness ==
    /\ ctor.name = "NewUnstableBloomFilter"
    /\ m = MaxM /\ k >= 1
    /\ added = FilterKeys
    /\ last = [op |-> "Test", key |-> <<97>>, ret |-> TRUE]

\* C10: NewStableBloomFilter(m, k, p, max) clamps instead of failing: the
\* filter has k = min(k, m) and p = min(p, m) cells, so k <= m and p <= m
\* in every state of its life, and the constructor returns no error.
C10_Clamp ==
    IsStable =>
        /\ m = ctor.size
        /\ k = Min(ctor.k, m)
        /\ p = Min(ctor.p, m)
        /\ k <= m /\ p <= m
        /\ max = ctor.max
        /\ ctor.err = NoErr
        /\ DOMAIN indexBuffer = 0..(k - 1)

C10_Witness ==
    /\ ctor.name = "NewStableBloomFilter"
    /\ ctor.k > ctor.size /\ ctor.p > ctor.size
    /\ k = m /\ p = m /\ m >= 1
    /\ last.op = "TestAndAdd"

\* C11: every Stable Bloom Filter a constructor returns has a hash count k
\* with 1 <= k <= m and an eviction count p with 0 <= p <= m, whatever the
\* constructor's arguments.
C11_KPRange == IsStable => 1 <= k /\ k <= m /\ 0 <= p /\ p <= m

\* C12: in a Stable Bloom Filter with m >= 1 and max >= 1, whatever p is,
\* Test(x) returns true immediately after Add(x) or TestAndAdd(x): the
\* eviction runs before the k probe cells are set to max.
C12_AddThenTest ==
    IsStable /\ m >= 1 /\ max >= 1 /\ ~panicked
             /\ last.op \in {"Add", "TestAndAdd"}
        => TestOf(last.key)

C12_Witness ==
    /\ IsStable /\ p = m /\ m = MaxM /\ k >= 2 /\ max >= 1
    /\ last.op = "Add"
    /\ Cardinality(added) >= 2
    /\ TestOf(last.key)
    /\ \E i \in DOMAIN cells : cells[i] = 0

\* the cells Add leaves when rand.Intn returns r and idxs are the probes of
\* its key (m >= 1)
AddCells(idxs, r) == setCells(decrement(cells, r, p, m), idxs, 0, max)

\* Test(data) or Add(data) ends in a runtime panic in the current state
TestThenAddPanics == IF IsBloom THEN BloomPanics ELSE m = 0

\* a step that is a call of TestAndAdd
TestAndAddStep == last'.op = "TestAndAdd" /\ vars' # vars

\* the step leaves what Test(x) followed by Add(x) leaves, idxs being the
\* probes of x and hashAfter the hash state hashKernel leaves
TestThenAddEffect(x, idxs, hashAfter) ==
    /\ hash64' = hashAfter
    /\ IsStable =>
          /\ last'.ret = Member(cells, idxs)
          /\ \E r \in 0..(m - 1) : cells' = AddCells(idxs, r)
          /\ indexBuffer' = idxs
    /\ IsBloom =>
          /\ last'.ret = bitsetTestAll(bits, idxs)
          /\ bits' = bitsetSetAll(bits, idxs)
    /\ added' = added \cup {x}

TestThenAddKernel(x, kern) ==
    TestThenAddEffect(x, Indices(kern, k, m), kern.hash)

\* TestAndAdd(x) did what Test(x) followed by Add(x) does: same panic, same
\* result, same cells (for some eviction start r), same scratch state
TestAndAddAsTestThenAdd ==
    /\ panicked' <=> TestThenAddPanics
    /\ ~TestThenAddPanics =>
          TestThenAddKernel(last'.key, hashKernel(hash64, last'.key))

\* C13: TestAndAdd(x) is Test(x) followed by Add(x), for the Stable filter
\* and for the bitset BloomFilter: it returns what Test(x) returns on the
\* state before the call and leaves the cells as Add(x) leaves them from
\* that state, for the same random eviction start.
C13_TestAndAdd == [][TestAndAddStep => TestAndAddAsTestThenAdd]_vars

C13_Witness ==
    /\ last.op = "TestAndAdd" /\ ~last.ret /\ ~panicked
    /\ p >= 1 /\ k >= 2 /\ max >= 1
    /\ Cardinality(added) >= 2
    /\ \E i \in DOMAIN cells : cells[i] = 0

\* Test(data) ends in a runtime panic in the current state: the bitset
\* filter's first probe divides by b.m = 0
TestPanics == IsBloom /\ BloomPanics

\* every cell (every bit) is zero
AllZero ==
    IF IsBloom THEN bits = {} ELSE \A i \in DOMAIN cells : cells[i] = 0

\* m, k, p and max are what the constructor made them
AsConstructed ==
    IF IsBloom
    THEN m = ctor.size /\ k = ctor.k
    ELSE /\ m = ctor.size
         /\ k = Min(ctor.k, ctor.size)
         /\ p = Min(ctor.p, ctor.size)
         /\ max = ctor.max

\* C14: after Reset every cell or bit is zero and m, k, p and max are
\* unchanged, so on every filter with k >= 1 Test(x) returns false for every
\* key x, the keys added before the Reset included.
C14_Reset ==
    (IsStable \/ IsBloom) /\ last.op = "Reset" =>
        /\ AllZero
        /\ AsConstructed
        /\ k >= 1 => ~TestPanics /\ \A x \in FilterKeys : ~TestOf(x)

\* C15: Test, Add, TestAndAdd and Observe are total: on every filter a
\* constructor returns without error (m = 0, k = 0 or p = 0 included) and
\* for every key, the empty one included, the call completes without a
\* runtime error (division by zero, index out of range, failed random
\* draw).
C15_Total == ~panicked

\* C16: in every reachable state of a Stable Bloom Filter every cell lies
\* in 0 .. max: a set writes exactly max, and an eviction stops at 0
\* instead of wrapping to 255.
C16_CellRange ==
    IsStable => \A i \in DOMAIN cells : 0 <= cells[i] /\ cells[i] <= max

C16_Witness ==
    /\ IsStable /\ max = MaxMax /\ p >= 1 /\ m = MaxM
    /\ last.op \in {"Add", "TestAndAdd"}
    /\ \E i \in DOMAIN cells : cells[i] = 0 /\ i \notin {indexBuffer[j] : j \in DOMAIN indexBuffer}
    /\ \E i \in DOMAIN cells : 0 < cells[i] /\ cells[i] < max
    /\ \E i \in DOMAIN cells : cells[i] = max
    /\ Cardinality(added) >= 2

\* a filter without eviction all of whose cells (bits) are non-zero
Saturated ==
    /\ p = 0
    /\ IF IsBloom THEN bits = 0..(m - 1)
       ELSE IsStable /\ \A i \in DOMAIN cells : cells[i] # 0

\* Test returns true for every key
TestsTrue == ~panicked /\ ~TestPanics /\ \A x \in FilterKeys : TestOf(x)

\* C17: a filter with p = 0 saturates: once every cell (bit) is non-zero
\* Test returns true for every key, and Add and TestAndAdd leave it so; only
\* Reset ends it.
C17_Saturates ==
    /\ [](Saturated => TestsTrue)
    /\ [][Saturated /\ last'.op # "Reset" => Saturated' /\ ~panicked']_vars

\* the added keys that Test reports as non-members: the false negatives
FalseNegatives == {x \in added : ~TestOf(x)}

\* C18: a Stable Bloom Filter with p >= 1 evicts: a key that was added can
\* be reported as a non-member by Test after insertions of other keys, with
\* no Reset in between.  A false negative arises in no other way: only in a
\* filter with p >= 1, and only for a key that is not the last one inserted
\* (unlike the p = 0 case, which has none).
C18_Evicts ==
    IsStable /\ ~panicked /\ max >= 1 /\ FalseNegatives # {} =>
        /\ p >= 1
        /\ Cardinality(added) >= 2
        /\ last.op \in {"Add", "TestAndAdd"} => last.key \notin FalseNegatives

C18_Witness ==
    /\ IsStable /\ p >= 1 /\ max >= 1 /\ k >= 1 /\ ~panicked
    /\ last.op = "Test" /\ last.key \in added /\ ~last.ret
    /\ last.key \in FalseNegatives

\* what Test(data) returns on the decoded filter
TestOnDecoded(data) ==
    IF IsBloom
    THEN bitsetTestAll(decoded.bits,
                       Indices(hashKernel(decoded.hash, data), decoded.k,
                               decoded.m))
    ELSE Member(decoded.cells,
                Indices(hashKernel(decoded.hash, data), decoded.k, decoded.m))

ClassicCase == IsStable /\ p = 0 /\ max = 1

\* the filter of TestFalsePositiveRate
DefaultCase ==
    /\ ctor.name = "NewDefaultStableBloomFilter"
    /\ ctor.size = TestSize

RoundedRate == round(last.ret, Num(Big(1), Big(2)), 2)

\* C20: a filter with p = 0 and max = 1 has StablePoint() = 0 and
\* FalsePositiveRate() = 1, and the false-positive rate of the default filter
\* of 1000 cells, rounded to two places, is at most 0.01.
C20_Rates ==
    /\ ClassicCase /\ last.op = "StablePoint" => FloatIs(last.ret, 0, 1)
    /\ ClassicCase /\ last.op = "FalsePositiveRate" => FloatIs(last.ret, 1, 1)
    /\ DefaultCase /\ last.op = "FalsePositiveRate"
           => FloatGeq(Num(Big(1), Big(100)), RoundedRate)

\* the p contiguous cells from r on, modulo m
Run(r, pN, mN) == {(r + i) % mN : i \in 0..(pN - 1)}

DecrementStep == last'.op = "decrement"

\* what the claim says of a decrement that drew r
DecrementEffect(r) ==
    /\ r \in 0..(m - 1)
    /\ DOMAIN cells' = DOMAIN cells
    /\ \A c \in DOMAIN cells :
          cells'[c] = IF c \in Run(r, p, m) /\ cells[c] >= 1
                      THEN cells[c] - 1
                      ELSE cells[c]

\* C21: one decrement draws one start index r in [0, m) and lowers by exactly
\* 1 each non-zero cell among the p cells r, ..., r + p - 1 (mod m); zero
\* cells stay zero and every cell outside the run is unchanged.
C21_Decrement == [][DecrementStep => DecrementEffect(last'.ret)]_vars

\* a decrement has just lowered a cell from 2 to 1, met a zero cell in its run
\* and left a non-zero cell outside the run
C21_Witness ==
    /\ last.op = "decrement"
    /\ \E c \in Run(last.ret, p, m) : cells[c] = 1 /\ max = 2
    /\ \E c \in Run(last.ret, p, m) : cells[c] = 0
    /\ \E c \in DOMAIN cells \ Run(last.ret, p, m) : cells[c] >= 1

\* decrement started at r lowers cell c of a filter all of whose cells are 1
Chosen(c, r) == decrement([i \in 0..(m - 1) |-> 1], r, p, m)[c] = 0

\* the start indices for which cell c is chosen
StartsChoosing(c) == {r \in 0..(m - 1) : Chosen(c, r)}

\* C22: every cell is in the eviction run for exactly p of the m possible
\* start indices r, so it is chosen with probability p/m in one insertion.
C22_Uniform ==
    IsStable => \A c \in 0..(m - 1) : Cardinality(StartsChoosing(c)) = p

\* a decrement has run in a filter where a run is neither empty nor all cells
C22_Witness ==
    /\ IsStable /\ 1 <= p /\ p < m
    /\ last.op = "decrement"
    /\ \E c \in 0..(m - 1) : Chosen(c, last.ret) /\ ~Chosen(c, (last.ret + 1) % m)

TestStep == last'.op = "Test"

\* C23: Test is a pure read: a Test step changes no cell or bit and none of
\* m, k, p, max, and it leaves the hash state as it found it, so what later
\* operations compute is the same with or without it; only the index scratch
\* buffer may change.
C23_TestPure ==
    [][TestStep => UNCHANGED <<cells, bits, m, k, p, max, hash64, added>>]_vars

\* a Test has just returned on a filter that holds a key
C23_Witness ==
    /\ last.op = "Test" /\ ~panicked
    /\ added # {}
    /\ IsStable => \E c \in DOMAIN cells : cells[c] # 0
    /\ IsBloom => bits # {}

\* the probe cells of a key
ProbeSet(x) ==
    IF m = 0 THEN {}
    ELSE {Index(hashKernel(hash64, x), i, m) : i \in 0..(k - 1)}

NonZero(c) == {i \in DOMAIN c : c[i] # 0}

InsertStep == IsStable /\ p = 0 /\ last'.op \in {"Add", "TestAndAdd"}

\* the cells of probes are set to max and no other cell changes
OnlyProbes(probes) ==
    /\ DOMAIN cells' = DOMAIN cells
    /\ \A c \in DOMAIN cells :
          cells'[c] = IF c \in probes THEN max ELSE cells[c]
    /\ NonZero(cells) \subseteq NonZero(cells')
    /\ Cardinality(NonZero(cells') \ NonZero(cells)) <= k

\* C24: with p = 0 Add(x) and TestAndAdd(x) set the k probe cells of x to max
\* and change no other cell, so the set of non-zero cells never shrinks and
\* grows by at most k cells per insertion.
C24_NoEviction == [][InsertStep => OnlyProbes(ProbeSet(last'.key))]_vars

\* an insertion into a filter with p = 0 has left a non-zero cell that is not
\* one of its probes
C24_Witness ==
    /\ IsStable /\ p = 0 /\ ~panicked
    /\ last.op \in {"Add", "TestAndAdd"}
    /\ \E c \in NonZero(cells) : c \notin ProbeSet(last.key)
    /\ \E c \in ProbeSet(last.key) : cells[c] = max

\* the k indices of a key computed from a hash object in its initial state
FreshIndices(x) == Indices(hashKernel(offset64, x), k, m)

\* C25: the probe indices are a function of the key alone: Test, Add and
\* TestAndAdd all use (lower + upper*i) mod m, i < k, computed from a hash
\* state that is the initial one whatever keys were hashed before, and each
\* index is in [0, m).
C25_SameIndices ==
    /\ hash64 = offset64
    /\ m >= 1 =>
          \A x \in FilterKeys : \A i \in 0..(k - 1) :
             FreshIndices(x)[i] \in 0..(m - 1)
    /\ m >= 1 /\ IsStable /\ last.op \in {"Test", "TestAndAdd"}
           => indexBuffer = FreshIndices(last.key)
    /\ m >= 1 /\ IsStable /\ last.op = "Test"
           => last.ret = Member(cells, FreshIndices(last.key))
    /\ m >= 1 /\ IsStable /\ last.op \in {"Add", "TestAndAdd"}
           => \A i \in 0..(k - 1) : cells[FreshIndices(last.key)[i]] = max
    /\ m >= 1 /\ IsBloom /\ last.op = "Test"
           => last.ret = bitsetTestAll(bits, FreshIndices(last.key))
    /\ m >= 1 /\ IsBloom /\ last.op \in {"Add", "TestAndAdd"}
           => \A i \in 0..(k - 1) : FreshIndices(last.key)[i] \in bits

\* a key is tested after another, non-empty key was hashed by an insertion
C25_Witness ==
    /\ m >= 2 /\ k >= 1 /\ ~panicked
    /\ last.op = "Test" /\ last.key # <<>>
    /\ \E y \in added : y # <<>> /\ y # last.key

\* the step is the exchange of goroutine t, made at the index of its own key
OwnExchange(t, idx) ==
    /\ pc[t] = "CompareAndSwapPointer" /\ pc'[t] = "idle"
    /\ idx = IndexOf(key[t], sizeMask)

\* every occupied slot holds a key of its own index
SlotsHoldOwnKeys ==
    \A idx \in 0..(arrayLen - 1) :
       Slot(idx) # NilPtr => IndexOf(Deref(Slot(idx)), sizeMask) = idx

\* the calls made between calls i and j of goroutine t, and all the calls of
\* the other goroutines, have keys of other slots than x's
OthersElsewhere(t, i, j, x) ==
    /\ \A n \in (i + 1)..(j - 1) :
          IndexOf(hist[t][n].key, sizeMask) # IndexOf(x, sizeMask)
    /\ \A u \in Threads \ {t} : \A data \in keyOf[u] :
          IndexOf(data, sizeMask) # IndexOf(x, sizeMask)

\* a key observed before, with only keys of other slots observed since, is
\* reported as observed
StillObserved ==
    \A t \in Threads : \A j \in 1..Len(hist[t]) : \A i \in 1..(j - 1) :
       /\ hist[t][i].key = hist[t][j].key
       /\ OthersElsewhere(t, i, j, hist[t][j].key)
       => hist[t][j].ret

\* C26: Observe(x) changes only the slot at x's own index, so a key that was
\* the last one written to its slot is still reported as observed after any
\* number of Observe calls on keys of other slots.
C26_OnlyOwnSlot ==
    /\ [](SlotsHoldOwnKeys /\ StillObserved)
    /\ [][\A idx \in 0..(arrayLen - 1) :
             Slot(idx)' # Slot(idx) => \E t \in Threads : OwnExchange(t, idx)]_vars

\* C27: every Observe call terminates: under weak fairness of each
\* goroutine a started call eventually leaves the retry loop of getAndSet
\* and returns, even while other goroutines keep calling Observe on the same
\* slot.
C27_Terminates == \A t \in Threads : (pc[t] # "idle") ~> (pc[t] = "idle")

\* the completed calls that exchanged slot idx
CallsOn(idx) == {c \in Calls : Call(c).index = idx}

\* the pointer call c stored: &key of the c[2]-th call of goroutine c[1]
Stored(c) == <<c[1], c[2]>>

\* follow the exchanges of one slot from occupant ptr on: the call that
\* returned ptr comes next and leaves the pointer it stored; the result is
\* the last occupant reached and the calls that were not reached
RECURSIVE ExchangeChain(_, _)
ExchangeChain(ptr, rest) ==
    LET next == {c \in rest : Call(c).prev = ptr}
    IN  IF next = {} THEN <<ptr, rest>>
        ELSE LET c == CHOOSE c \in next : TRUE
             IN  ExchangeChain(Stored(c), rest \ {c})

\* C28: getAndSet is an atomic exchange: the calls on one slot can be put in
\* an order in which each returns what its predecessor stored (the first
\* returns the initial occupant) and the last one's key is the occupant, so
\* no stored key is lost and none is returned twice.
C28_AtomicExchange ==
    \A idx \in 0..(arrayLen - 1) :
       /\ \A c, d \in CallsOn(idx) : Call(c).prev = Call(d).prev => c = d
       /\ \A c \in CallsOn(idx) : Deref(Stored(c)) = Call(c).key
       /\ ExchangeChain(NilPtr, CallsOn(idx)) = <<Slot(idx), {}>>

\* both goroutines have exchanged one slot, three times or more in total
C28_Witness ==
    \E idx \in 0..(arrayLen - 1) :
       /\ Cardinality(CallsOn(idx)) >= 3
       /\ \A t \in Threads : \E c \in CallsOn(idx) : c[1] = t

\* C29: the key held in a slot is fixed at the time of the Observe call: the
\* bytes a stored pointer leads to stay the bytes that were passed, also
\* when the caller reuses the buffer, so Observe never returns true for a
\* key that was not observed.
C29_KeyFixed ==
    /\ \A c \in Calls : Deref(Stored(c)) = Call(c).key
    /\ \A c \in Calls : Call(c).ret => Call(c).seen

\* ((255 * 8) + 255) * 8 + 255 = 18615, what Sum32 folds from three bytes 255
MaxSum32 == ((255 * 8) + 255) * 8 + 255

\* limbs of a digest with bytes 0, 1 and 255
EdgeLimbs == {0, 1, 255, 256, 65280, 65535}

\* C30: uintHash.Sum32 folds only the first three digest bytes, with shifts
\* by 3, so it never exceeds 18615: the index Observe uses is in [0, size)
\* and at most 18615, and no slot above 18615 is ever written, however many
\* slots the filter has.
C30_IndexBound ==
    /\ MaxSum32 = 18615
    /\ Sum32(hash) <= MaxSum32
    /\ \A hi, lo \in EdgeLimbs : Sum32(<<hi, lo>>) <= MaxSum32
    /\ \A t \in Threads :
          pc[t] \in {"Reset", "LoadPointer", "CompareAndSwapPointer"}
              => uindex[t] \in 0..(arrayLen - 1) /\ uindex[t] <= MaxSum32
    /\ \A idx \in DOMAIN array : idx \in 0..(arrayLen - 1) /\ idx <= MaxSum32
    /\ \A c \in Calls : Call(c).index <= MaxSum32

\* slot 18615 of a filter with more than 32768 slots has been written
C30_Witness ==
    /\ arrayLen > 32768
    /\ MaxSum32 \in DOMAIN array
    /\ Deref(Slot(MaxSum32)) = maxSumKey

====
